---- MODULE Spec2Model ----
(***************************************************************************)
(* Model of the job enrichment engine of enrich_jobs.py: process_jobs (the *)
(* run controller and the drain loop of the main thread), the             *)
(* ThreadPoolExecutor workers running process_single_row around the       *)
(* retried enrich_single_job, and the two durable files (the output CSV   *)
(* and the .progress.json checkpoint) that survive a kill of the process. *)
(***************************************************************************)
EXTENDS Integers, Sequences, FiniteSets, TLC

\* ------------------------------------------------------------------ bounds
MaxRows == 3        \* rows of the input file in the small configurations
MaxWorkers == 2     \* largest --workers value tried
MaxBacklog == 2     \* finished futures not yet yielded by as_completed
MaxRuns == 3        \* launches of process_jobs in one behaviour
LongBacklog == 1    \* the same two bounds for the long input
LongRuns == 2
MaxCrashes == 1     \* kills of the process in one behaviour
MaxFaults == 1      \* tasks whose Enrichment Function calls may fail
ShortLimit == 3     \* the --limit value tried besides no limit
EnvRows == 2        \* rows of the input where the environment varies

\* ------------------------------------------------------- program constants
MAX_RETRIES == 5    \* config.py: attempts per job
MaxLiveRows == 11   \* the rows whose workers are given fairness
SampleSize == 10     \* errors[:10], the sample of the summary
SaveEvery == 10     \* enrich_jobs.py: len(processed_indices) % 10 == 0
RETRY_DELAY_SECONDS == 2    \* config.py: multiplier of wait_exponential
WaitMin == 2        \* enrich_jobs.py: wait_exponential(.., min=2, max=60)
WaitMax == 60

\* ---------------------------------------------------------------- values
\* the checkpoint file: absent, truncated by open(.., 'w') and not yet
\* written, or holding the JSON object of save_progress
NoFile == [status |-> "absent", processed_indices |-> {}, total |-> 0,
           errors |-> 0]
Corrupt == [status |-> "truncated", processed_indices |-> {}, total |-> 0,
            errors |-> 0]
NoIdx == 0 - 1              \* no row index
NoLimit == 0 - 1            \* --limit not given (None)

\* what the process finds: whether OPENROUTER_API_KEY is set, and the input
\* file (rows to read, missing, not readable as CSV, or a header only)
GoodEnv == [key |-> TRUE, input |-> "ok"]

Header == [kind |-> "header", idx |-> NoIdx, enriched |-> FALSE]
Record(i, res) == [kind |-> "row", idx |-> i, enriched |-> (res = "ok")]

\* a future: its state, the calls made, the seconds of the backoff sleep it
\* is in, the payload of the call that returned and the kind of tuple
\* process_single_row produced
NoTask == [st |-> "none", attempt |-> 0, delay |-> 0, payload |-> "none",
           res |-> "none"]

\* ------------------------------------------ values of one row's fields
\* a value of the enrichment dict: None (JSON null), a text, or a list
Null == [t |-> "null", s |-> "", items |-> <<>>]
Str(x) == [t |-> "str", s |-> x, items |-> <<>>]
List(q) == [t |-> "list", s |-> "", items |-> q]
Values == {Null, Str(""), Str("x"), List(<<>>), List(<<"a", "b">>)}

\* the dict process_single_row returns for a row-level error (lines 173
\* and 182): every configured column with the empty text
ErrorEnrichment == [col \in {"job_family", "licenses_required", "enriched_at"}
                       |-> Str("")]

\* config.py, ENRICHMENT_COLUMNS: three of the configured columns, in
\* their order (a free-text field, a list field, the timestamp)
ENRICHMENT_COLUMNS == <<"job_family", "licenses_required", "enriched_at">>

\* the keys a returned dict may hold: configured ones and one that is not
EnrichmentKeys == {"job_family", "licenses_required", "enriched_at", "extra"}

\* the headers of the input file tried: one without and one with a column
\* that has the name of an enrichment column
InputHeaders == {<<"job_title">>, <<"job_title", "job_family">>}

NoRecord == <<>>
\* the outcome of a writerow that raised ValueError
WriteError == <<[col |-> "ValueError", text |-> ""]>>

\* the content the model sent back: a JSON object with the expected
\* fields, text json.loads rejects, JSON that is not an object (a list, a
\* number, a string, null), or a JSON object without the expected fields
Payloads == {"valid", "unparseable", "not_mapping", "missing_fields"}

\* what the Enrichment Function may do in the small and long inputs: one
\* task meets failures, of every kind
AnyFault == [faults : {MaxFaults}, payloads : {Payloads}, raises : {TRUE}]

\* f extended with the fields of g
With(f, g) ==
    [k \in DOMAIN f \cup DOMAIN g |-> IF k \in DOMAIN g THEN g[k] ELSE f[k]]
Extend(F, G) == {With(f, g) : f \in F, g \in G}

\* small inputs explored with every interleaving of the pool; the largest
\* of them with one launch less
SmallConfigs == Extend(
    [rows : 1..(MaxRows - 1), maxWorkers : {MaxWorkers},
     backlog : {MaxBacklog}, runs : {MaxRuns},
     limits : {{NoLimit}}, envs : {{GoodEnv}}]
      \cup
    [rows : {MaxRows}, maxWorkers : {MaxWorkers}, backlog : {MaxBacklog},
     runs : {MaxRuns - 1}, limits : {{NoLimit}}, envs : {{GoodEnv}}],
    AnyFault)

\* one input longer than SaveEvery, with a sequential pool, so that the
\* periodic save_progress happens in the middle of a run
LongConfigs == Extend(
    [rows : {SaveEvery + 1}, maxWorkers : {1}, backlog : {LongBacklog},
     runs : {LongRuns}, limits : {{NoLimit}}, envs : {{GoodEnv}}],
    AnyFault)

\* the long input, launched with and without --limit
LimitConfigs == Extend(
    [rows : {SaveEvery + 1}, maxWorkers : {1}, backlog : {LongBacklog},
     runs : {LongRuns}, limits : {{NoLimit, ShortLimit}}, envs : {{GoodEnv}}],
    AnyFault)

\* a short input, launched in every environment
EnvConfigs == Extend(
    [rows : {EnvRows}, maxWorkers : {MaxWorkers}, backlog : {MaxBacklog},
     runs : {MaxRuns}, limits : {{NoLimit}},
     envs : {[key : BOOLEAN,
              input : {"ok", "missing", "unreadable", "no_rows"}]}],
    AnyFault)

\* the short input again, launched with the smallest --limit values
EdgeLimitConfigs == Extend(
    [rows : {EnvRows}, maxWorkers : {MaxWorkers}, backlog : {MaxBacklog},
     runs : {MaxRuns - 1}, limits : {{NoLimit, 0, 1}}, envs : {{GoodEnv}}],
    AnyFault)

\* one launch of an input with more rows than the summary's error sample
\* holds, every one of which may get text that is not JSON
ErrorConfigs ==
    [rows : {SampleSize + 1}, maxWorkers : {1}, backlog : {LongBacklog},
     runs : {1}, limits : {{NoLimit}}, envs : {{GoodEnv}},
     faults : {SampleSize + 1}, payloads : {{"valid", "unparseable"}},
     raises : {FALSE}]

VARIABLES
    cfg,                \* input size and pool limits of this behaviour
    budget,             \* remaining runs / crashes / faults
    progress_file,      \* durable: NoFile, Corrupt or the JSON object
    output_exists,      \* durable: the output path exists
    output_file,        \* durable: the sequence of CSV records in it
    last_exit,          \* how the previous process ended
    pc,                 \* position of the main thread ("off": no process)
    resume, dry_run, workers, limit,   \* arguments of the current run
    env,                \* the environment the current run found
    total_rows,
    processed_indices,
    rows_to_process,
    submitted,          \* futures submitted so far
    task,               \* per row index: future / worker state
    cur,                \* index whose record the drain loop is handling
    errors, error_count,
    write_lock, progress_lock,
    start_exists, start_out, start_ckpt,  \* the files as the run found them
    saved,              \* this run has completed a save_progress
    input_columns,      \* one row on its way to the output file: list(df.columns),
    original_row,       \* the row's dict,
    enrichment,         \* the dict its worker returned,
    written,            \* and the record csv.DictWriter wrote for it
    output_paths,       \* two --output arguments, of two launches,
    progress_files      \* and what get_progress_file returned for them

vars == <<cfg, budget, progress_file, output_exists, output_file, last_exit, pc, resume,
          dry_run, workers, limit, env, total_rows, processed_indices, rows_to_process,
          submitted, task, cur, errors, error_count, write_lock, progress_lock,
          start_exists, start_out, start_ckpt, saved, input_columns,
          original_row, enrichment, written, output_paths, progress_files>>

\* what no step of a run changes: the configuration, and the row that is
\* followed on its own through flatten_enrichment and the writer
one_row == <<input_columns, original_row, enrichment, written>>
\* the output arguments that are followed on their own
paths == <<output_paths, progress_files>>
fixed == <<cfg, one_row, paths>>

durable == <<progress_file, output_exists, output_file>>
vars_of_run ==
    <<cfg, budget, progress_file, output_exists, output_file, last_exit, pc,
      resume, dry_run, workers, limit, env, total_rows, processed_indices,
      rows_to_process, submitted, task, cur, errors, error_count, write_lock,
      progress_lock, start_exists, start_out, start_ckpt, saved>>
args == <<resume, dry_run, workers, limit, env>>
memory == <<total_rows, processed_indices, rows_to_process, submitted, task,
            cur, errors, error_count>>
locks == <<write_lock, progress_lock>>
ghost == <<start_exists, start_out, start_ckpt, saved>>

Rows == 0..(cfg.rows - 1)

\* ---------------------------------------------------------- pure helpers
\* load_progress: the set of processed indices of the checkpoint file
load_progress(f) == f.processed_indices

\* [i for i in range(total_rows) if i not in processed_indices]
RECURSIVE RangeMinus(_, _, _)
RangeMinus(i, n, done) ==
    IF i >= n THEN <<>>
    ELSE IF i \in done THEN RangeMinus(i + 1, n, done)
    ELSE <<i>> \o RangeMinus(i + 1, n, done)

\* variant: the loaded set is not taken off
RowsToProcessAll(n, done) == RangeMinus(0, n, {})

RowsToProcess(n, done) == RangeMinus(0, n, done)

\* the JSON object save_progress dumps
Snapshot(done, total, errs) ==
    [status |-> "written", processed_indices |-> done, total |-> total,
     errors |-> errs]

Range(s) == {s[k] : k \in 1..Len(s)}

\* indices that have a data record in an output file
OutIdx(f) == {f[k].idx : k \in {j \in 1..Len(f) : f[j].kind = "row"}}

\* number of data records of index i in an output file
OutCount(f, i) ==
    Cardinality({k \in 1..Len(f) : f[k].kind = "row" /\ f[k].idx = i})

InState(s) == {i \in Rows : task[i].st = s}
InFlight == InState("running")
Busy == InState("running") \cup InState("waiting")

\* ------------------------------------------------------ output paths
\* a path as pathlib sees it: the parent, and the name split at its last
\* dot into stem and suffix ("" for a name without a dot)
OutputPaths == [parent : {"a", "b"}, stem : {"out", "run"},
                suffix : {"", ".csv", ".tsv"}]

\* str(path)
PathText(p) == p.parent \o "/" \o p.stem \o p.suffix

\* Path.with_suffix(new): the name's last suffix is replaced by new
with_suffix(p, new) == p.parent \o "/" \o p.stem \o new

\* get_progress_file, lines 199-201
get_progress_file(output_path) == with_suffix(output_path, ".progress.json")

\* json.dumps of a list of texts: ["a", "b"]
RECURSIVE JoinItems(_)
JoinItems(q) ==
    IF Len(q) = 0 THEN ""
    ELSE IF Len(q) = 1 THEN "\"" \o q[1] \o "\""
    ELSE "\"" \o q[1] \o "\", " \o JoinItems(Tail(q))

JsonDumps(q) == "[" \o JoinItems(q) \o "]"

\* enrichment.get(col)
Get(e, col) == IF col \in DOMAIN e THEN e[col] ELSE Null

\* flatten_enrichment, lines 185-196: one text per configured column
\* variant: every key of the dict is kept
flatten_enrichment_all_keys(e) ==
    [col \in Range(ENRICHMENT_COLUMNS) \cup DOMAIN e |->
        LET value == Get(e, col)
        IN IF value.t = "list"
           THEN IF Len(value.items) > 0 THEN JsonDumps(value.items) ELSE ""
           ELSE IF value.t = "null" THEN ""
           ELSE value.s]

\* variant: every list, the empty one included, is dumped
flatten_enrichment_dump_all(e) ==
    [col \in Range(ENRICHMENT_COLUMNS) |->
        LET value == Get(e, col)
        IN IF value.t = "list" THEN JsonDumps(value.items)
           ELSE IF value.t = "null" THEN ""
           ELSE value.s]

flatten_enrichment(e) ==
    [col \in Range(ENRICHMENT_COLUMNS) |->
        LET value == Get(e, col)
        IN IF value.t = "list"
           THEN IF Len(value.items) > 0 THEN JsonDumps(value.items) ELSE ""
           ELSE IF value.t = "null" THEN ""
           ELSE value.s]

\* input_columns + [c for c in ENRICHMENT_COLUMNS if c not in input_columns]
NotIn(cols) == [c \in Range(ENRICHMENT_COLUMNS) |-> c \notin Range(cols)]
RECURSIVE Keep(_, _)
Keep(q, keep) ==
    IF Len(q) = 0 THEN <<>>
    ELSE IF keep[Head(q)] THEN <<Head(q)>> \o Keep(Tail(q), keep)
    ELSE Keep(Tail(q), keep)

OutputColumns(cols) == cols \o Keep(ENRICHMENT_COLUMNS, NotIn(cols))

\* {**original_row, **flat}
Merge(a, b) ==
    [k \in DOMAIN a \cup DOMAIN b |-> IF k \in DOMAIN b THEN b[k] ELSE a[k]]

\* csv.DictWriter(f, fieldnames).writerow(row): ValueError for a key that
\* is no field name, the empty text for a field name that is no key
DictWriterRow(fieldnames, row) ==
    IF ~(DOMAIN row \subseteq Range(fieldnames)) THEN WriteError
    ELSE [k \in 1..Len(fieldnames) |->
             [col |-> fieldnames[k],
              text |-> IF fieldnames[k] \in DOMAIN row THEN row[fieldnames[k]]
                       ELSE ""]]

\* ----------------------------------------------------------------- Init
InitWith(configs) ==
    /\ cfg \in configs
    /\ budget = [runs |-> cfg.runs, crashes |-> MaxCrashes, faults |-> cfg.faults]
    /\ progress_file = NoFile
    /\ output_exists = FALSE
    /\ output_file = <<>>
    /\ last_exit = "none"
    /\ pc = "off"
    /\ resume = FALSE /\ dry_run = FALSE /\ workers = 1
    /\ limit = NoLimit /\ env = GoodEnv
    /\ total_rows = 0
    /\ processed_indices = {}
    /\ rows_to_process = <<>>
    /\ submitted = 0
    /\ task = [i \in Rows |-> NoTask]
    /\ cur = NoIdx
    /\ errors = <<>> /\ error_count = 0
    /\ write_lock = "free" /\ progress_lock = "free"
    /\ start_exists = FALSE /\ start_out = <<>> /\ start_ckpt = NoFile
    /\ saved = FALSE

\* no row is followed on its own
NoRowDrawn ==
    /\ input_columns = <<>>
    /\ original_row = <<>>
    /\ enrichment = <<>>
    /\ written = NoRecord

\* no output argument is followed on its own
NoPathDrawn == output_paths = <<>> /\ progress_files = <<>>
OneRun == NoRowDrawn /\ NoPathDrawn

Init == InitWith(SmallConfigs \cup LongConfigs) /\ OneRun
InitLong == InitWith(LongConfigs) /\ OneRun
InitEnv ==
    InitWith(LimitConfigs \cup EnvConfigs \cup EdgeLimitConfigs) /\ OneRun
InitErrors == InitWith(LongConfigs \cup ErrorConfigs) /\ OneRun
InitLive == InitWith(SmallConfigs \cup LongConfigs) /\ OneRun

\* the memory of a process that does not exist
ClearMemory ==
    /\ total_rows' = 0
    /\ processed_indices' = {}
    /\ rows_to_process' = <<>>
    /\ submitted' = 0
    /\ task' = [i \in Rows |-> NoTask]
    /\ cur' = NoIdx
    /\ errors' = <<>> /\ error_count' = 0
    /\ write_lock' = "free" /\ progress_lock' = "free"
    /\ resume' = FALSE /\ dry_run' = FALSE /\ workers' = 1
    /\ limit' = NoLimit /\ env' = GoodEnv
    /\ start_exists' = FALSE /\ start_out' = <<>> /\ start_ckpt' = NoFile
    /\ saved' = FALSE

\* ------------------------------------------------- process_jobs, lines 234-272
\* the set process_jobs starts from: the checkpoint only when resuming
\* variant: the checkpoint is never read
LoadedNothing(res, f) == {}

LoadedIndices(res, f) ==
    IF res /\ f.status # "absent" THEN load_progress(f) ELSE {}

\* "if limit:" is false for None and for 0
HasLimit(lim) == lim # NoLimit /\ lim # 0

\* len(df) after pd.read_csv and df.head(limit)
TotalRows(n, lim) == IF HasLimit(lim) /\ lim < n THEN lim ELSE n

\* the rows pd.read_csv finds in the input file
InputRows(inp) == IF inp = "no_rows" THEN 0 ELSE cfg.rows

\* "if resume and progress_file.exists()": load_progress is called, and
\* json.load raises, only for a file that exists and is not complete
\* variant: the file is opened without the exists() test
LoadFailsUnlessWritten(res, f) == res /\ f.status # "written"

LoadFails(res, f) == res /\ f.status = "truncated"

\* the two early returns of process_jobs: nothing to process (lines
\* 261-263), dry run (lines 269-272)
\* variant: a dry run does not return early
ReturnsEarlyIfEmpty(todo, dry) == Len(todo) = 0

ReturnsEarly(todo, dry) == Len(todo) = 0 \/ dry

\* main() up to the call of process_jobs, then process_jobs up to its two
\* early returns
StartRun(res, dry, w, lim, e) ==
    /\ pc = "off"
    /\ budget.runs > 0
    /\ budget' = [budget EXCEPT !.runs = @ - 1]
    /\ UNCHANGED <<fixed, durable, locks>>
    /\ IF e.input \in {"missing", "unreadable"}
       THEN \* sys.exit(1) of main (line 378), or pd.read_csv raises
            /\ env' = e /\ pc' = "fatal"
            /\ resume' = res /\ dry_run' = dry /\ workers' = w /\ limit' = lim
            /\ start_exists' = output_exists
            /\ start_out' = output_file
            /\ start_ckpt' = progress_file
            /\ UNCHANGED <<last_exit, memory, saved>>
       ELSE IF LoadFails(res, progress_file)
       THEN \* json.load raises JSONDecodeError: the process dies
            /\ last_exit' = "exception"
            /\ UNCHANGED <<pc, args, memory, ghost>>
       ELSE LET total == TotalRows(InputRows(e.input), lim)
                done == LoadedIndices(res, progress_file)
                todo == RowsToProcess(total, done)
            IN /\ resume' = res /\ dry_run' = dry /\ workers' = w
               /\ limit' = lim /\ env' = e
               /\ total_rows' = total
               /\ processed_indices' = done
               /\ rows_to_process' = todo
               /\ pc' = IF ReturnsEarly(todo, dry) THEN "done" ELSE "get_key"
               /\ start_exists' = output_exists
               /\ start_out' = output_file
               /\ start_ckpt' = progress_file
               /\ UNCHANGED <<last_exit, submitted, task, cur, errors,
                              error_count, saved>>

\* ------------------------------------------- get_api_key, lines 57-64, 274
\* sys.exit(1) when OPENROUTER_API_KEY is not set
\* variant: a missing key is not detected
GetApiKeyUnchecked ==
    /\ pc = "get_key"
    /\ pc' = "init_output"
    /\ UNCHANGED <<fixed, budget, durable, last_exit, args, memory, locks,
                   ghost>>

GetApiKey ==
    /\ pc = "get_key"
    /\ pc' = IF env.key THEN "init_output" ELSE "fatal"
    /\ UNCHANGED <<fixed, budget, durable, last_exit, args, memory, locks,
                   ghost>>

\* ------------------------------------------------- process_jobs, lines 277-286
\* whether the output file is (re)initialised with a header
\* variant: only a missing output file is initialised
NeedsHeaderIfMissing(res, exists) == ~exists

NeedsHeader(res, exists) == ~res \/ ~exists

\* variant: the file is opened in append mode for the header
InitOutputAppendMode ==
    /\ pc = "init_output"
    /\ IF NeedsHeader(resume, output_exists)
       THEN /\ output_exists' = TRUE
            /\ output_file' = output_file
            /\ pc' = "write_header"
       ELSE /\ pc' = "submit"
            /\ UNCHANGED <<output_exists, output_file>>
    /\ UNCHANGED <<fixed, budget, progress_file, last_exit, args, memory, locks,
                   ghost>>

InitOutput ==
    /\ pc = "init_output"
    /\ IF NeedsHeader(resume, output_exists)
       THEN /\ output_exists' = TRUE        \* open(output_path, 'w')
            /\ output_file' = <<>>
            /\ pc' = "write_header"
       ELSE /\ pc' = "submit"
            /\ UNCHANGED <<output_exists, output_file>>
    /\ UNCHANGED <<fixed, budget, progress_file, last_exit, args, memory, locks,
                   ghost>>

WriteHeader ==
    /\ pc = "write_header"
    /\ output_file' = Append(output_file, Header)
    /\ pc' = "submit"
    /\ UNCHANGED <<fixed, budget, progress_file, output_exists, last_exit, args, memory, locks,
                   ghost>>

\* ------------------------------------------------- process_jobs, lines 292-298
Submit ==
    /\ pc = "submit"
    /\ submitted < Len(rows_to_process)
    /\ LET idx == rows_to_process[submitted + 1]
       IN task' = [task EXCEPT ![idx] = [NoTask EXCEPT !.st = "queued"]]
    /\ submitted' = submitted + 1
    /\ pc' = IF submitted' = Len(rows_to_process) THEN "drain" ELSE "submit"
    /\ UNCHANGED <<fixed, budget, durable, last_exit, args, total_rows,
                   processed_indices, rows_to_process, cur, errors,
                   error_count, locks, ghost>>

\* ------------------------------------- ThreadPoolExecutor(max_workers=workers)
\* a worker thread takes the oldest queued work item when one is idle
\* variant: a queued item starts whether or not a worker is idle
\* variant: a free worker takes any queued task
CanStartAnyQueued(i) ==
    /\ task[i].st = "queued"
    /\ Cardinality(Busy) < workers

CanStartUnbounded(i) ==
    /\ task[i].st = "queued"
    /\ \A j \in InState("queued") : i <= j

CanStart(i) ==
    /\ task[i].st = "queued"
    /\ \A j \in InState("queued") : i <= j
    /\ Cardinality(Busy) < workers

StartTask(i) ==
    /\ pc \in {"submit", "drain", "appended", "save_open", "save_write"}
    /\ CanStart(i)
    /\ task' = [task EXCEPT ![i] = [NoTask EXCEPT !.st = "running",
                                                  !.attempt = 1]]
    /\ UNCHANGED <<fixed, budget, durable, last_exit, pc, args, total_rows,
                   processed_indices, rows_to_process, submitted, cur, errors,
                   error_count, locks, ghost>>

\* ------------------------------ enrich_single_job / process_single_row
\* the tuple process_single_row returns for a payload that came back:
\* parse_llm_response turns rejected text into {"_parse_error": ..}, which
\* line 171 answers with blank columns and "JSON parse error"; on a value
\* that is not a dict the membership test or the assignment of
\* enrichment['enriched_at'] raises TypeError, caught at line 181 outside
\* the retried function; any dict is returned as a success
\* variant: every payload that came back is taken as a success
ResultOfLenient(payload) == "ok"

ResultOf(payload) ==
    CASE payload = "unparseable" -> "parse_error"
      [] payload = "not_mapping" -> "type_error"
      [] OTHER -> "ok"

\* tenacity: stop_after_attempt(MAX_RETRIES), reraise=True
\* variant: one more attempt is made after the MAX_RETRIES-th has raised
AttemptsLeftInclusive(n) == n <= MAX_RETRIES

AttemptsLeft(n) == n < MAX_RETRIES

\* tenacity: wait_exponential(multiplier=RETRY_DELAY_SECONDS, min, max), the
\* sleep after the n-th call has raised: multiplier * 2 ** (n - 1), clamped
\* variant: the exponent is the number of the call that raised
WaitExponentialFromOne(n) ==
    LET result == RETRY_DELAY_SECONDS * 2 ^ n
        capped == IF result < WaitMax THEN result ELSE WaitMax
    IN IF capped > WaitMin THEN capped ELSE WaitMin

WaitExponential(n) ==
    LET result == RETRY_DELAY_SECONDS * 2 ^ (n - 1)
        capped == IF result < WaitMax THEN result ELSE WaitMax
    IN IF capped > WaitMin THEN capped ELSE WaitMin

\* a fault is charged to the budget once per task, at its first attempt
FaultCost(i) == IF task[i].attempt = 1 THEN 1 ELSE 0

RoomInBacklog == Cardinality(InState("finished")) < cfg.backlog

\* the call returns; parse_llm_response and process_single_row classify it
CallReturns(i, payload) ==
    /\ task[i].st = "running"
    /\ payload \in cfg.payloads
    /\ RoomInBacklog
    /\ payload # "valid" => budget.faults >= FaultCost(i)
    /\ budget' = IF payload # "valid"
                 THEN [budget EXCEPT !.faults = @ - FaultCost(i)] ELSE budget
    /\ task' = [task EXCEPT ![i].st = "finished", ![i].payload = payload,
                            ![i].res = ResultOf(payload)]
    /\ UNCHANGED <<fixed, durable, last_exit, pc, args, total_rows,
                   processed_indices, rows_to_process, submitted, cur, errors,
                   error_count, locks, ghost>>

\* the call raises (network error, rate limit, timeout, ...)
CallRaises(i) ==
    /\ task[i].st = "running"
    /\ cfg.raises
    /\ budget.faults >= FaultCost(i)
    /\ AttemptsLeft(task[i].attempt) \/ RoomInBacklog
    /\ budget' = [budget EXCEPT !.faults = @ - FaultCost(i)]
    /\ task' = IF AttemptsLeft(task[i].attempt)
               THEN [task EXCEPT ![i].st = "waiting",
                                 ![i].delay = WaitExponential(task[i].attempt)]
               ELSE [task EXCEPT ![i].st = "finished", ![i].res = "exception"]
    /\ UNCHANGED <<fixed, durable, last_exit, pc, args, total_rows,
                   processed_indices, rows_to_process, submitted, cur, errors,
                   error_count, locks, ghost>>

\* the backoff sleep ends and the next attempt starts
Retry(i) ==
    /\ task[i].st = "waiting"
    /\ task' = [task EXCEPT ![i].st = "running", ![i].attempt = @ + 1,
                            ![i].delay = 0]
    /\ UNCHANGED <<fixed, budget, durable, last_exit, pc, args, total_rows,
                   processed_indices, rows_to_process, submitted, cur, errors,
                   error_count, locks, ghost>>

\* ------------------------------------------------- process_jobs, lines 302-334
\* as_completed yields a finished future; the row is appended under write_lock
\* variant: the index is marked processed when its future is taken, the
\* record not being written yet
AppendRowMarkOnly(i) ==
    /\ pc = "drain"
    /\ task[i].st = "finished"
    /\ processed_indices' = processed_indices \cup {i}
    /\ UNCHANGED <<fixed, budget, durable, last_exit, pc, args, total_rows,
                   rows_to_process, submitted, task, cur, errors, error_count,
                   locks, ghost>>

\* variant: the record is appended without taking write_lock
AppendRowUnlocked(i) ==
    /\ pc = "drain"
    /\ task[i].st = "finished"
    /\ output_exists' = TRUE
    /\ output_file' = Append(output_file, Record(i, task[i].res))
    /\ task' = [task EXCEPT ![i].st = "drained"]
    /\ cur' = i
    /\ pc' = "appended"
    /\ UNCHANGED <<fixed, budget, progress_file, last_exit, args, total_rows,
                   processed_indices, rows_to_process, submitted, errors,
                   error_count, locks, ghost>>

\* variant: a result is written only when no task is with a worker
AppendRowWhenIdle(i) ==
    /\ pc = "drain"
    /\ task[i].st = "finished"
    /\ Busy = {}
    /\ write_lock = "free"
    /\ write_lock' = "main"
    /\ output_exists' = TRUE
    /\ output_file' = Append(output_file, Record(i, task[i].res))
    /\ task' = [task EXCEPT ![i].st = "drained"]
    /\ cur' = i
    /\ pc' = "appended"
    /\ UNCHANGED <<fixed, budget, progress_file, last_exit, args, total_rows,
                   processed_indices, rows_to_process, submitted, errors,
                   error_count, progress_lock, ghost>>

AppendRow(i) ==
    /\ pc = "drain"
    /\ task[i].st = "finished"
    /\ write_lock = "free"
    /\ write_lock' = "main"
    /\ output_exists' = TRUE              \* open(output_path, 'a')
    /\ output_file' = Append(output_file, Record(i, task[i].res))
    /\ task' = [task EXCEPT ![i].st = "drained"]
    /\ cur' = i
    /\ pc' = "appended"
    /\ UNCHANGED <<fixed, budget, progress_file, last_exit, args, total_rows,
                   processed_indices, rows_to_process, submitted, errors,
                   error_count, progress_lock, ghost>>

\* len(processed_indices) % 10 == 0
\* variant: the checkpoint is saved after every row
SaveDueEveryRow(done) == TRUE

SaveDue(done) == Cardinality(done) % SaveEvery = 0

\* the rest of one iteration of the drain loop, given whether the index is
\* added to the set and whether the row is booked as an error
\* variant: write_lock is still held after the row is finished, as if
\* the rest of the loop body were inside the with-block
FinishRowHoldingLock(add, isError) ==
    /\ pc = "appended"
    /\ processed_indices' = IF add THEN processed_indices \cup {cur}
                            ELSE processed_indices
    /\ IF isError
       THEN /\ errors' = Append(errors, [idx |-> cur, error |-> task[cur].res])
            /\ error_count' = error_count + 1
       ELSE UNCHANGED <<errors, error_count>>
    /\ cur' = NoIdx
    /\ pc' = IF SaveDue(processed_indices') THEN "save_open" ELSE "drain"
    /\ UNCHANGED <<fixed, budget, durable, last_exit, args, total_rows,
                   rows_to_process, submitted, task, locks, ghost>>

FinishRow(add, isError) ==
    /\ pc = "appended"
    /\ processed_indices' = IF add THEN processed_indices \cup {cur}
                            ELSE processed_indices
    /\ write_lock' = "free"
    /\ IF isError
       THEN /\ errors' = Append(errors, [idx |-> cur, error |-> task[cur].res])
            /\ error_count' = error_count + 1
       ELSE UNCHANGED <<errors, error_count>>
    /\ cur' = NoIdx
    /\ pc' = IF SaveDue(processed_indices') THEN "save_open" ELSE "drain"
    /\ UNCHANGED <<fixed, budget, durable, last_exit, args, total_rows,
                   rows_to_process, submitted, task, progress_lock, ghost>>

\* the third component of the tuple process_single_row returns: None for a
\* success, else the error text ("JSON parse error" or str(e)[:100], named
\* here by the kind of result)
NoError == "None"
ErrorOf(res) == IF res = "ok" THEN NoError ELSE res

\* "if error:" is true for a text that is neither None nor empty
Truthy(error) == error # NoError /\ error # ""

\* variant: once a row has failed, every later row is booked as an error
AddProcessedSticky ==
    pc = "appended" /\ FinishRow(TRUE, task[cur].res # "ok" \/ error_count > 0)

\* variant: only a successful row is added to the set
AddProcessedOkOnly ==
    pc = "appended" /\ FinishRow(task[cur].res = "ok", task[cur].res # "ok")

\* variant: the error of a row is never booked
AddProcessedNoBooking ==
    pc = "appended" /\ FinishRow(TRUE, FALSE)

\* processed_indices.add(idx) inside write_lock (line 317), then
\* "if error:" (lines 319-321) and the save test (line 326)
AddProcessed ==
    pc = "appended" /\ FinishRow(TRUE, Truthy(ErrorOf(task[cur].res)))

\* ------------------------------------------------- save_progress, lines 213-222
\* open(progress_file, 'w') under progress_lock truncates the file
\* variant: the file is opened without progress_lock being taken
SaveProgressOpenUnlocked(at, next) ==
    /\ pc = at
    /\ progress_file' = Corrupt
    /\ pc' = next
    /\ UNCHANGED <<fixed, budget, output_exists, output_file, last_exit, args,
                   memory, locks, ghost>>

SaveProgressOpen(at, next) ==
    /\ pc = at
    /\ progress_lock = "free"
    /\ progress_lock' = "main"
    /\ progress_file' = Corrupt
    /\ pc' = next
    /\ UNCHANGED <<fixed, budget, output_exists, output_file, last_exit, args,
                   memory, write_lock, ghost>>

\* json.dump of the whole state, then the file is closed and the lock released
\* variant: the lock is not released when the with-block ends
SaveProgressDumpKeepsLock(at, next) ==
    /\ pc = at
    /\ progress_file' = Snapshot(processed_indices, total_rows, error_count)
    /\ saved' = TRUE
    /\ pc' = next
    /\ UNCHANGED <<fixed, budget, output_exists, output_file, last_exit, args,
                   memory, locks, start_exists, start_out, start_ckpt>>

SaveProgressDump(at, next) ==
    /\ pc = at
    /\ progress_file' = Snapshot(processed_indices, total_rows, error_count)
    /\ progress_lock' = "free"
    /\ saved' = TRUE
    /\ pc' = next
    /\ UNCHANGED <<fixed, budget, output_exists, output_file, last_exit, args,
                   memory, write_lock, start_exists, start_out, start_ckpt>>

PeriodicSaveOpen == SaveProgressOpen("save_open", "save_write")
PeriodicSaveDump == SaveProgressDump("save_write", "drain")

\* every future has been yielded: the with-blocks end (line 335)
\* variant: the loop may end before every future has been yielded
AllDrainedAnyTime == TRUE

AllDrained == \A k \in 1..Len(rows_to_process) :
                  task[rows_to_process[k]].st = "drained"

\* variant: the run ends without the final save_progress
FinalSaveSkipped ==
    /\ AllDrained
    /\ pc = "drain"
    /\ pc' = "done"
    /\ UNCHANGED <<fixed, budget, durable, last_exit, args, memory, locks,
                   ghost>>

FinalSaveOpen ==
    /\ AllDrained
    /\ SaveProgressOpen("drain", "final_write")

FinalSaveDump == SaveProgressDump("final_write", "done")

\* ------------------------------------- the summary, lines 339-356
\* Success: len(rows_to_process) - len(errors)
success_count(todo, errs) == Len(todo) - Len(errs)

\* the errors printed: errors[:10]
\* variant: every error is printed
ErrorSampleAll(errs) == errs

ErrorSample(errs) ==
    SubSeq(errs, 1, IF Len(errs) < SampleSize THEN Len(errs) ELSE SampleSize)

\* process_jobs returns and main() ends: exit status 0. The three returns of
\* process_jobs: nothing to do (line 263), dry run (line 272), the summary
HowEnded(dry, todo) ==
    IF Len(todo) = 0 THEN "nothing_to_do"
    ELSE IF dry THEN "dry_run" ELSE "completed"

ExitStatus(how) ==
    IF how \in {"nothing_to_do", "dry_run", "completed"} THEN 0 ELSE 1

\* why the process is at its sys.exit(1) or dies of the exception
Aborted(e) == IF e.input # "ok" THEN "input_error" ELSE "no_api_key"

Exit ==
    /\ pc \in {"done", "fatal"}
    /\ pc' = "off"
    /\ last_exit' = IF pc = "fatal" THEN Aborted(env)
                    ELSE HowEnded(dry_run, rows_to_process)
    /\ ClearMemory
    /\ UNCHANGED <<fixed, budget, durable>>

\* the positions of the main thread between the first submit and the end
\* of the as_completed loop (lines 292-334)
DispatchDrain == {"submit", "drain", "appended", "save_open", "save_write"}

\* the process is killed; only the files survive
Crash ==
    /\ pc \notin {"off", "done", "fatal"}
    /\ budget.crashes > 0
    /\ budget' = [budget EXCEPT !.crashes = @ - 1]
    /\ pc' = "off"
    /\ last_exit' = IF pc \in DispatchDrain THEN "killed" ELSE "killed_outside"
    /\ ClearMemory
    /\ UNCHANGED <<fixed, durable>>

\* ------------------------- process_jobs, lines 246-248 and 306-314
\* the record of one row: flatten, merge with the input row, write
WriteRecord ==
    /\ written = NoRecord
    /\ written' = DictWriterRow(OutputColumns(input_columns),
                                Merge(original_row,
                                      flatten_enrichment(enrichment)))
    /\ UNCHANGED <<vars_of_run, input_columns, original_row, enrichment,
                   paths>>

\* a row drawn from the bounded sets: its header, its input values and the
\* dict its worker returned
InitRow ==
    /\ InitWith(LongConfigs)
    /\ input_columns \in InputHeaders
    /\ original_row = [c \in Range(input_columns) |-> "in"]
    /\ enrichment \in UNION {[K -> Values] : K \in SUBSET EnrichmentKeys}
    /\ written = NoRecord
    /\ NoPathDrawn

SpecRow == InitRow /\ [][WriteRecord]_vars

\* ------------------------------------ get_progress_file, lines 199-201
\* main(), line 374 and process_jobs, line 251: the next output argument
\* gets its checkpoint location
GetProgressFile ==
    /\ Len(progress_files) < Len(output_paths)
    /\ progress_files' =
           Append(progress_files,
                  get_progress_file(output_paths[Len(progress_files) + 1]))
    /\ UNCHANGED <<vars_of_run, one_row, output_paths>>

\* two output arguments drawn from the bounded set
InitPath ==
    /\ InitWith(LongConfigs) /\ NoRowDrawn
    /\ output_paths \in [1..2 -> OutputPaths]
    /\ progress_files = <<>>

SpecPath == InitPath /\ [][GetProgressFile]_vars

Next ==
    \/ \E res \in BOOLEAN, dry \in BOOLEAN, w \in 1..cfg.maxWorkers,
          lim \in cfg.limits, e \in cfg.envs :
           StartRun(res, dry, w, lim, e)
    \/ GetApiKey
    \/ InitOutput
    \/ WriteHeader
    \/ Submit
    \/ \E i \in Rows : StartTask(i)
    \/ \E i \in Rows, p \in Payloads : CallReturns(i, p)
    \/ \E i \in Rows : CallRaises(i)
    \/ \E i \in Rows : Retry(i)
    \/ \E i \in Rows : AppendRow(i)
    \/ AddProcessed
    \/ PeriodicSaveOpen
    \/ PeriodicSaveDump
    \/ FinalSaveOpen
    \/ FinalSaveDump
    \/ Exit
    \/ Crash

\* ------------------------------------------- runs that nobody kills
\* the operator launches the program
Launch ==
    \E res \in BOOLEAN, dry \in BOOLEAN, w \in 1..cfg.maxWorkers,
       lim \in cfg.limits, e \in cfg.envs :
        StartRun(res, dry, w, lim, e)

\* the steps of the main thread: process_jobs from get_api_key to its return
MainStep ==
    \/ GetApiKey
    \/ InitOutput
    \/ WriteHeader
    \/ Submit
    \/ \E i \in Rows : AppendRow(i)
    \/ AddProcessed
    \/ PeriodicSaveOpen
    \/ PeriodicSaveDump
    \/ FinalSaveOpen
    \/ FinalSaveDump
    \/ Exit

\* the steps of the pool for the task of row i: a free worker takes it, the
\* call returns or raises, the backoff sleep ends
WorkerStep(i) ==
    /\ i \in Rows
    /\ \/ StartTask(i)
       \/ \E p \in Payloads : CallReturns(i, p)
       \/ CallRaises(i)
       \/ Retry(i)

NextUnkilled ==
    \/ Launch
    \/ MainStep
    \/ \E i \in Rows : WorkerStep(i)

\* the main thread and every worker are scheduled; every call returns or
\* raises (timeout=REQUEST_TIMEOUT_SECONDS, line 136) and every sleep ends
Fairness ==
    /\ WF_vars(MainStep)
    /\ \A i \in 0..(MaxLiveRows - 1) : WF_vars(WorkerStep(i))

SpecLive == InitLive /\ [][NextUnkilled]_vars /\ Fairness

Spec == Init /\ [][Next]_vars
SpecLong == InitLong /\ [][Next]_vars
SpecEnv == InitEnv /\ [][Next]_vars
SpecErrors == InitErrors /\ [][Next]_vars

\* ------------------------------------------------------------ vocabulary
Running == pc # "off"
\* the run has reached the end of process_jobs having dispatched its rows
Completed == pc = "done" /\ ~dry_run /\ Len(rows_to_process) > 0
Todo == Range(rows_to_process)
Failed(i) == task[i].res \in {"parse_error", "type_error", "exception"}
\* the records this run has appended: what follows the records it found,
\* or follows the header it wrote
RunBase == IF NeedsHeader(resume, start_exists) THEN 1 ELSE Len(start_out)
RunRecords == IF pc \in {"off", "get_key", "fatal", "init_output",
                         "write_header"} THEN <<>>
              ELSE SubSeq(output_file, RunBase + 1, Len(output_file))
Persisted == progress_file.processed_indices

\* ------------------------------------------------------------------ C1
\* C1: when a fresh (non-resume) run that was not interrupted ends, the
\* output file is the header followed by exactly one data record for each
\* index of [0, N), whatever W and whatever the rows' outcomes were.
C1_FreshRunWritesEachRowOnce ==
    (Completed /\ ~resume) =>
        /\ output_exists
        /\ Len(output_file) = cfg.rows + 1
        /\ output_file[1] = Header
        /\ \A k \in 2..Len(output_file) : output_file[k].kind = "row"
        /\ \A i \in Rows : OutCount(output_file, i) = 1

\* a fresh run over an output file left by an earlier run has ended, with
\* two workers and one row that failed
C1_Witness ==
    /\ Completed /\ ~resume
    /\ start_exists /\ Len(start_out) > 1
    /\ cfg.rows = MaxRows /\ workers = MaxWorkers
    /\ error_count = 1

\* ------------------------------------------------------------------ C2
\* C2: when a run with resume enabled ends after the previous process was
\* killed in its dispatch/drain phase, every index of [0, N) has a record
\* in the output file.
C2_ResumeAfterKillCoversAllRows ==
    (pc = "done" /\ resume /\ ~dry_run /\ last_exit = "killed") =>
        OutIdx(output_file) = Rows

\* ------------------------------------------------------------------ C3
\* C3: when a run ends (fresh or resumed), the indices of the persisted
\* checkpoint and the indices with a record in the output file are both
\* [0, N), and no index has more than one record.
C3_CompletedRunNoGapsNoDuplicates ==
    (pc = "done" /\ ~dry_run) =>
        /\ Persisted = Rows
        /\ OutIdx(output_file) = Rows
        /\ \A i \in Rows : OutCount(output_file, i) <= 1

\* ------------------------------------------------------------------ C4
\* C4: a run with resume enabled that follows a completed run makes no
\* Enrichment Function call, appends nothing, and leaves the output file
\* and the checkpoint file as it found them.
C4_ResumeAfterCompletionIsNoOp ==
    (Running /\ resume /\ last_exit = "completed") =>
        /\ \A i \in Rows : task[i] = NoTask
        /\ Len(rows_to_process) = 0
        /\ output_exists = start_exists /\ output_file = start_out
        /\ progress_file = start_ckpt
        /\ pc = "done"

\* a resumed run that follows a completed run has ended (not a dry run)
C4_Witness ==
    /\ pc = "done" /\ resume /\ ~dry_run /\ last_exit = "completed"
    /\ Len(start_out) = cfg.rows + 1 /\ cfg.rows = MaxRows

\* ------------------------------------------------------------------ C5
\* C5: the number of Enrichment Function calls in flight never exceeds the
\* pool size W of the run.
C5_BoundedConcurrency == Cardinality(InFlight) <= workers

\* the pool is full while a submitted row still waits for a worker
C5_Witness ==
    /\ workers = MaxWorkers
    /\ Cardinality(InFlight) = workers
    /\ InState("queued") # {}

\* ------------------------------------------------------------------ C6
\* C6: an index of the run is in the in-memory completed set, or in a
\* checkpoint snapshot this run has persisted, only once this run has
\* appended its record to the output file.
C6_CheckpointAfterWrite ==
    \A i \in Todo :
        (i \in processed_indices \/ (saved /\ i \in Persisted)) =>
            /\ task[i].st = "drained"
            /\ \E k \in 1..Len(RunRecords) : RunRecords[k].idx = i

\* a snapshot was persisted in the middle of the run: rows are still to be
\* appended while the checkpoint file holds the rows appended so far
C6_Witness ==
    /\ pc = "drain" /\ saved /\ ~AllDrained
    /\ Persisted # {} /\ Persisted \subseteq Todo

\* ------------------------------------------------------------------ C7
\* C7: every index in the durable checkpoint file has a record in the
\* output file, in every state reachable by fresh runs, resumed runs and
\* kills.
C7_CheckpointWithinOutput == Persisted \subseteq OutIdx(output_file)

\* ------------------------------------------------------------------ C8
\* C8: a fresh run dispatches every row whatever checkpoint file exists,
\* and from the moment it has re-initialised the output file the
\* checkpoint file holds no index that this run has not completed.
C8_FreshRunStartsFromEmptyCheckpoint ==
    (Running /\ ~resume /\ ~dry_run) =>
        /\ Todo = Rows
        /\ pc # "init_output" => Persisted \subseteq processed_indices

\* ------------------------------------------------------------------ C9
\* C9: when one row r raised on every attempt and every other row of the
\* run succeeded, the run ends normally, the record of every other row
\* carries its enrichment and is not booked as an error, and the error
\* list holds r exactly once.
OnlyFailure(r) ==
    /\ r \in Todo
    /\ task[r].res = "exception"
    /\ \A j \in Todo \ {r} : task[j].res = "ok"

C10_FailedRowAdvancesCheckpoint ==
    /\ Completed => \A i \in Todo : i \in processed_indices /\ i \in Persisted
    /\ (Running /\ resume) =>
           \A i \in load_progress(start_ckpt) : task[i] = NoTask
    /\ \A i \in Todo : (task[i].st = "drained" /\ Failed(i) /\ pc = "drain")
                           => i \in processed_indices

\* a resumed run is processing the rows its checkpoint lacks, and the
\* checkpoint it loaded holds a row whose only record is blank
C10_Witness ==
    /\ pc = "drain" /\ resume
    /\ \E i \in load_progress(start_ckpt) :
           /\ \A k \in 1..Len(output_file) :
                  output_file[k].idx = i => ~output_file[k].enriched
           /\ OutCount(output_file, i) = 1
    /\ \E j \in Todo : task[j].st = "running"

\* ------------------------------------------------------------------ C11
\* C11: once the drain loop has handled a row whose call raised on its last
\* attempt (retries exhausted, a timeout being one of the exceptions), this
\* run has appended exactly one record for the row, that record carries no
\* enrichment, the error list holds the row exactly once with the text of
\* the exception, and the error count is the number of rows handled so far
\* that ended in an error.
Booked(i) == task[i].st = "drained" /\ cur # i

C12_AttemptsBounded ==
    [][\A i \in Rows :
          /\ task'[i].attempt \in 0..MAX_RETRIES
          /\ task'[i].st \in {"running", "waiting", "finished", "drained"}
                 => task'[i].attempt >= 1
          /\ (task[i].st = "running" /\ task'[i].st = "waiting")
                 => task[i].attempt < MAX_RETRIES
          /\ (task[i].st = "waiting" /\ task'[i].st \notin {"waiting", "none"})
                 => /\ task'[i].st = "running"
                    /\ task'[i].attempt = task[i].attempt + 1
          /\ (task[i].res = "none" /\ task'[i].res = "exception")
                 => /\ task[i].attempt = MAX_RETRIES
                    /\ task'[i].st = "finished"
          /\ (task[i].res = "none" /\ task'[i].res \notin {"none", "exception"})
                 => task'[i].st = "finished"
          /\ (task[i].st \in {"finished", "drained"} /\ task'[i].st # "none")
                 => /\ task'[i].st \in {"finished", "drained"}
                    /\ task'[i].attempt = task[i].attempt
                    /\ task'[i].res = task[i].res
      ]_vars

\* one row has raised MAX_RETRIES times and its future is finished, and
\* another row has returned at its first call
C12_Witness ==
    /\ \E i \in Rows : /\ task[i].st = "finished"
                       /\ task[i].res = "exception"
                       /\ task[i].attempt = MAX_RETRIES
    /\ \E j \in Rows : /\ task[j].st \in {"finished", "drained"}
                       /\ task[j].res = "ok" /\ task[j].attempt = 1

\* ------------------------------------------------------------------ C13
\* C13 as stated: a call that returned a payload that is not parseable,
\* not a mapping, or lacks the expected fields is not followed by another
\* call for the row, and once the drain loop has handled the row the error
\* list holds it and its record carries no enrichment.
ErrorEntries(i) == Cardinality({k \in 1..Len(errors) : errors[k].idx = i})
BlankRecord(i) ==
    \A k \in 1..Len(RunRecords) :
        RunRecords[k].idx = i => ~RunRecords[k].enriched

C13_InvalidPayloadIsError ==
    \A i \in Rows :
        task[i].payload \in {"unparseable", "not_mapping", "missing_fields"}
            => /\ task[i].st \in {"finished", "drained"}
               /\ Booked(i) => ErrorEntries(i) = 1 /\ BlankRecord(i)

\* C13 amended: the same for a payload that is not parseable or not a
\* mapping; a mapping that lacks the expected fields is not followed by
\* another call either, but it is a success: no error is booked and the
\* record is the enrichment of the call (absent fields blank).
C13_UnusablePayloadIsError ==
    \A i \in Rows :
        /\ task[i].payload \in {"unparseable", "not_mapping"}
               => /\ task[i].st \in {"finished", "drained"}
                  /\ Failed(i)
                  /\ Booked(i) => ErrorEntries(i) = 1 /\ BlankRecord(i)
        /\ task[i].payload = "missing_fields"
               => /\ task[i].st \in {"finished", "drained"}
                  /\ ~Failed(i)
                  /\ Booked(i) => ErrorEntries(i) = 0 /\ ~BlankRecord(i)

\* the drain loop has handled a row whose first call returned JSON that is
\* not an object, while another row is still with its worker
C13_Witness ==
    /\ pc = "drain"
    /\ \E i \in Todo : /\ task[i].payload = "not_mapping" /\ Booked(i)
                       /\ task[i].attempt = 1
    /\ InState("running") # {}

\* ------------------------------------------------------------------ C14
\* C14: the sleep before call n (2 <= n <= MAX_RETRIES) of a row is
\* RETRY_DELAY_SECONDS * 2^(n-2) seconds kept within [WaitMin, WaitMax],
\* that is 2, 4, 8 and 16 seconds before calls 2, 3, 4 and 5; a row sleeps
\* at no other time: not before its first call, not after a call that
\* returned, not after the last call has raised.
BackoffBefore(n) == CASE n = 2 -> 2 [] n = 3 -> 4 [] n = 4 -> 8 [] n = 5 -> 16

C14_BackoffDelays ==
    \A i \in Rows :
        IF task[i].st = "waiting"
        THEN LET n == task[i].attempt + 1
             IN /\ n \in 2..MAX_RETRIES
                /\ task[i].delay = BackoffBefore(n)
                /\ task[i].delay >= WaitMin /\ task[i].delay <= WaitMax
        ELSE task[i].delay = 0

\* a row sleeps 16 seconds before its last call
C14_Witness ==
    \E i \in Rows : /\ task[i].st = "waiting"
                    /\ task[i].attempt = MAX_RETRIES - 1
                    /\ task[i].delay = 16

\* ------------------------------------------------------------------ C15
\* C15: a data record is appended to the output file only by a step that
\* finds write_lock free and takes it; while the lock is held the file
\* does not change and the holder is the drain loop handling one row, whose
\* record is the last of the file; so no two rows' records are ever being
\* appended at once.
DataAppended ==
    /\ Len(output_file') = Len(output_file) + 1
    /\ output_file'[Len(output_file')].kind = "row"

C15_AppendInsideWriteLock ==
    [][/\ DataAppended => write_lock = "free" /\ write_lock' = "main"
       /\ write_lock = "main" => output_file' = output_file
       /\ write_lock' = "main" =>
              /\ pc' = "appended" /\ cur' \in Rows
              /\ output_file'[Len(output_file')] = Record(cur', task'[cur'].res)
       /\ pc' = "appended" => write_lock' = "main"
      ]_vars

\* the drain loop holds write_lock having appended one row, while the
\* future of another row is finished and a third row is with its worker
C15_Witness ==
    /\ pc = "appended" /\ write_lock = "main"
    /\ InState("finished") # {}
    /\ InState("running") # {}

\* ------------------------------------------------------------------ C16
\* C16: a fresh run writes the header once, into the emptied file, before
\* it submits any row or appends any record, so that from its first submit
\* on the file starts with its only header; a resumed run that finds the
\* output file keeps what it found and adds data records only; and in
\* every reachable state a header record is the first record of the file.
Headers(f) == {k \in 1..Len(f) : f[k].kind = "header"}

C16_HeaderOnceAndFirst ==
    /\ Headers(output_file) \subseteq {1}
    /\ pc \in {"init_output", "write_header"} =>
           submitted = 0 /\ \A i \in Rows : task[i] = NoTask
    /\ pc = "write_header" => output_file = <<>>
    /\ (~resume /\ (pc \in DispatchDrain \/ pc = "final_write" \/ Completed))
           => Headers(output_file) = {1}
    /\ (Running /\ resume /\ start_exists) =>
           /\ Len(output_file) >= Len(start_out)
           /\ SubSeq(output_file, 1, Len(start_out)) = start_out
           /\ Headers(output_file) = Headers(start_out)

\* a resumed run has appended records behind the header and the records
\* it found in the output file
C16_Witness ==
    /\ pc = "drain" /\ resume /\ start_exists
    /\ Len(start_out) >= 2 /\ Headers(start_out) = {1}
    /\ Len(output_file) > Len(start_out)

\* ------------------------------------------------------------------ C17
\* the rows this run has completed so far, and whether the checkpoint file
\* holds a snapshot this run took after the latest of them
CompletedThisRun ==
    Cardinality(processed_indices)
        - Cardinality(LoadedIndices(resume, start_ckpt))
SnapshotIsCurrent == saved /\ Persisted = processed_indices

C18_CheckpointSaveAtomic ==
    /\ pc = "off" => progress_file.status \in {"absent", "written"}
    /\ last_exit # "exception"

\* ------------------------------------------------------------------ C19
FilesUntouched ==
    /\ output_exists = start_exists /\ output_file = start_out
    /\ progress_file = start_ckpt
NothingSubmitted == submitted = 0 /\ \A i \in Rows : task[i] = NoTask
InputUnusable == env.input \in {"missing", "unreadable"}

C20_EmptyInputIsError ==
    (Running /\ env.input = "no_rows") =>
        /\ pc = "fatal"
        /\ ExitStatus(Aborted(env)) # 0

\* ------------------------------------------------------------------ C21
\* the controller state of a position of the main thread: LOADING and
\* RESUMING are inside the step that launches the run, 2 is DISPATCHING,
\* 3 DRAINING, 4 SUMMARIZING, 5 DONE, 6 the fatal abort
Phase(p) ==
    CASE p = "off" -> 0
      [] p \in {"get_key", "init_output", "write_header", "submit"} -> 2
      [] p \in {"drain", "appended", "save_open", "save_write"} -> 3
      [] p = "final_write" -> 4
      [] p = "done" -> 5
      [] p = "fatal" -> 6

InOrder ==
    /\ (pc # "off" /\ pc' # "off") => Phase(pc') >= Phase(pc)
    /\ (Phase(pc') = 3 /\ Phase(pc) # 3) => pc = "submit"
    /\ (Phase(pc') = 4 /\ Phase(pc) # 4) => Phase(pc) = 3

\* C21 as stated: a process never steps back to an earlier controller
\* state, and every run that is not a dry run is in DONE only after the
\* final checkpoint persist of SUMMARIZING, a resumed run with nothing
\* left to process included.
C21_PhasesInOrderWithFinalPersist ==
    [][/\ InOrder
       /\ (pc' = "done" /\ ~dry_run') => saved'
      ]_vars

\* C21 amended: a process never steps back; a run with rows to process
\* (not a dry run) enters DRAINING from DISPATCHING, SUMMARIZING from
\* DRAINING once every future has been yielded, and DONE from the final
\* persist; a run with nothing to process, like a dry run, goes from
\* loading straight to DONE: no summary, no persist, no file touched.
C21_PhasesInOrder ==
    [][/\ InOrder
       /\ pc' = "final_write" => AllDrained'
       /\ (pc' = "done" /\ ~dry_run' /\ Len(rows_to_process') > 0)
              => /\ pc \in {"final_write", "done"}
                 /\ saved' /\ Range(rows_to_process') \subseteq Persisted'
       /\ (pc' = "done" /\ (dry_run' \/ Len(rows_to_process') = 0))
              => /\ pc \in {"off", "done"}
                 /\ ~saved' /\ durable' = durable
      ]_vars

\* a resumed run that loaded a checkpoint holding every row is at its end
C21_Witness ==
    /\ pc = "done" /\ resume /\ ~dry_run
    /\ Len(rows_to_process) = 0 /\ total_rows = MaxRows
    /\ start_ckpt.status = "written" /\ ~saved

\* ------------------------------------------------------------------ C22
\* C22: when a run that dispatched at least one row is at its end, it has
\* persisted the checkpoint after its last completion: the file is the
\* snapshot of the in-memory completed set, which holds every row the run
\* processed, with total = N.
C22_FinalPersistAtDone ==
    Completed =>
        /\ saved
        /\ progress_file.status = "written"
        /\ Persisted = processed_indices
        /\ Todo \subseteq Persisted
        /\ \A i \in Todo : task[i].st = "drained"
        /\ progress_file.total = cfg.rows

\* a resumed run that completed the rows a killed run had left, fewer
\* than SaveEvery, is at its end
C22_Witness ==
    /\ Completed /\ resume /\ last_exit = "killed"
    /\ load_progress(start_ckpt) # {}
    /\ Len(rows_to_process) < SaveEvery
    /\ Persisted = Rows

\* ------------------------------------------------------------------ C23
\* a run launched with --resume after the previous process was killed
ResumedAfterKill ==
    Running /\ resume /\ last_exit \in {"killed", "killed_outside"}

\* what such a run submits: the indices of [0, N) that the checkpoint file
\* it found lacks, and none of the indices the file holds
RedoesUnpersisted ==
    ResumedAfterKill =>
        /\ Todo = Rows \ load_progress(start_ckpt)
        /\ \A i \in load_progress(start_ckpt) : task[i] = NoTask
        /\ \A i \in Rows : task[i] # NoTask => i \in Todo

\* C23: a launch with --resume that follows a kill loads the checkpoint
\* file (it does not die on it) and submits again exactly the indices of
\* [0, N) that the file lacks, rows written after the last save included,
\* and never an index the file holds.
C23_ResumeRedoesExactlyUnpersisted ==
    /\ last_exit # "exception"
    /\ RedoesUnpersisted

\* ------------------------------------------------------------------ C24
\* C24: in a run, the list of rows to submit holds each index of [0, N)
\* that the loaded completed set lacks, once, and no other index; the
\* futures that exist are those of the first "submitted" entries of the
\* list, one per entry, and from the drain loop on those of all entries.
C24_OneTaskPerUnprocessedRow ==
    (Running /\ pc # "fatal") =>
        /\ Todo = (0..(total_rows - 1)) \ LoadedIndices(resume, start_ckpt)
        /\ Cardinality(Todo) = Len(rows_to_process)
        /\ {i \in Rows : task[i] # NoTask}
               = {rows_to_process[k] : k \in 1..submitted}
        /\ Cardinality({i \in Rows : task[i] # NoTask}) = submitted
        /\ Phase(pc) \in {3, 4} => submitted = Len(rows_to_process)

\* a resumed run that loaded some indices has submitted the other rows,
\* at least two of them
C24_Witness ==
    /\ pc = "drain" /\ resume
    /\ LoadedIndices(resume, start_ckpt) # {}
    /\ submitted >= 2

\* ------------------------------------------------------------------ C25
\* C25: a dry run, with or without --resume, goes from loading straight to
\* its end, where it reports the rows it would process: it submits no row,
\* makes no call, and the output file and the checkpoint file are as the
\* run found them (not created, not truncated, not appended to).
C25_DryRunTouchesNothing ==
    (Running /\ dry_run) =>
        /\ pc = "done"
        /\ NothingSubmitted
        /\ FilesUntouched
        /\ write_lock = "free" /\ progress_lock = "free"
        /\ Len(rows_to_process) > 0 =>
               HowEnded(dry_run, rows_to_process) = "dry_run"

\* a fresh dry run over the output file and the checkpoint file of a
\* completed run: it would process every row, and the files are intact
C25_Witness ==
    /\ pc = "done" /\ dry_run /\ ~resume
    /\ Len(rows_to_process) = MaxRows
    /\ output_exists /\ Len(output_file) = MaxRows + 1
    /\ progress_file.status = "written"

\* ------------------------------------------------------------------ C26
\* C26: a run launched with --limit L, L being any integer >= 0, loads
\* min(L, N) rows: the rows it may submit are among the indices
\* [0, min(L, N)), no row of index >= L gets a future, and each snapshot
\* it writes records total = min(L, N).
LimitGiven == Running /\ pc # "fatal" /\ limit # NoLimit
Least(a, b) == IF a < b THEN a ELSE b

C26_LimitTruncatesRows ==
    LimitGiven =>
        /\ total_rows = Least(limit, cfg.rows)
        /\ Todo \subseteq 0..(Least(limit, cfg.rows) - 1)
        /\ \A i \in Rows : i >= limit => task[i] = NoTask
        /\ saved => progress_file.total = Least(limit, cfg.rows)

\* ------------------------------------------------------------------ C27
\* C27: a run launched with --resume that finds no checkpoint file does
\* not die loading it: it starts from the empty completed set, its rows to
\* process are all of [0, N), and by the drain loop each has its future;
\* the only file a launch dies on is a truncated one.
C27_ResumeWithoutCheckpoint ==
    /\ (pc = "off" /\ last_exit = "exception")
           => progress_file.status = "truncated"
    /\ (Running /\ resume /\ start_ckpt.status = "absent") =>
           /\ LoadedIndices(resume, start_ckpt) = {}
           /\ Todo = 0..(total_rows - 1) /\ total_rows = cfg.rows
           /\ processed_indices \subseteq Todo
           /\ Phase(pc) \in {3, 4} => \A i \in Rows : task[i] # NoTask

\* a run with --resume found the output file of a killed run but no
\* checkpoint file, and is draining all the rows
C27_Witness ==
    /\ pc = "drain" /\ resume /\ start_ckpt.status = "absent"
    /\ start_exists /\ Len(start_out) >= 2
    /\ total_rows = MaxRows

\* the values of the summary a completed run prints
Dispatched == submitted
ReportedSuccess == success_count(rows_to_process, errors)
ReportedErrors == Len(errors)
PrintedSample == ErrorSample(errors)
FailedTasks == {i \in Todo : Failed(i)}

MutatesSet ==
    /\ pc \in DispatchDrain /\ pc' \in DispatchDrain
    /\ processed_indices' # processed_indices
\* a step that changes the checkpoint file
Persists == progress_file' # progress_file

\* C30 as stated: every mutation of the in-memory set and every write of
\* the checkpoint file happen with one and the same lock, the checkpoint
\* lock (progress_lock), held.
C30_SetAndPersistUnderCheckpointLock ==
    [][/\ MutatesSet => progress_lock = "main"
       /\ Persists => (progress_lock = "main" \/ progress_lock' = "main")]_vars

\* C30: the in-memory set is mutated with write_lock held and
\* progress_lock free; the checkpoint file is written only inside
\* progress_lock; and while progress_lock is held the set is not mutated,
\* both being done by the main thread alone, so that no snapshot is taken
\* while the set changes.
C30_SetUnderWriteLockPersistUnderProgressLock ==
    [][/\ MutatesSet => (write_lock = "main" /\ progress_lock = "free")
       /\ Persists => (progress_lock = "main" \/ progress_lock' = "main")
       /\ progress_lock = "main" => ~MutatesSet]_vars

\* a periodic save in the middle of a run: the set has grown to SaveEvery
\* rows and the main thread is inside save_progress
C30_Witness ==
    /\ pc = "save_write"
    /\ progress_lock = "main" /\ write_lock = "free"
    /\ Cardinality(processed_indices) = SaveEvery
    /\ progress_file = Corrupt

\* ------------------------------------------------ the record of one row
RowWritten == written # NoRecord
ColumnsOf(rec) == [k \in 1..Len(rec) |-> rec[k].col]
TextOf(rec, c) == rec[CHOOSE k \in 1..Len(rec) : rec[k].col = c].text
AbsentOrNull(c) == c \notin DOMAIN enrichment \/ enrichment[c] = Null
NewColumn(c) == c \notin Range(input_columns)

\* C28: whatever subset of the configured enrichment fields the result
\* holds, and whatever fields outside the schema, the record written has
\* exactly the output columns: the input columns followed by the
\* enrichment columns the input does not have, in the configured order;
\* no field outside the schema is written, and a missing or null field is
\* written as the empty text.
C28_SchemaStable ==
    RowWritten =>
        /\ written # WriteError
        /\ ColumnsOf(written) =
               input_columns \o SelectSeq(ENRICHMENT_COLUMNS, NewColumn)
        /\ \A k \in 1..Len(written) :
               written[k].col \in
                   Range(input_columns) \cup Range(ENRICHMENT_COLUMNS)
        /\ \A c \in Range(ENRICHMENT_COLUMNS) :
               AbsentOrNull(c) => TextOf(written, c) = ""

\* a record written for a result with a field outside the schema, a
\* missing field, a null field and a list
C28_Witness ==
    /\ RowWritten
    /\ "extra" \in DOMAIN enrichment
    /\ "job_family" \notin DOMAIN enrichment
    /\ "enriched_at" \in DOMAIN enrichment /\ enrichment["enriched_at"] = Null
    /\ "licenses_required" \in DOMAIN enrichment
    /\ enrichment["licenses_required"] = List(<<"a", "b">>)
    /\ TextOf(written, "licenses_required") = "[\"a\", \"b\"]"
    /\ Len(written) = Len(input_columns) + 3

\* the two output arguments have their checkpoint locations
BothLocated == Len(output_paths) = 2 /\ Len(progress_files) = 2
SameTarget == PathText(output_paths[1]) = PathText(output_paths[2])
SameCheckpoint == progress_files[1] = progress_files[2]

\* C31: the checkpoint location depends on the output destination only:
\* the same output target always gets the same checkpoint, and two
\* different output targets never get the same checkpoint.
C31_OwnCheckpoint ==
    BothLocated => (SameTarget <=> SameCheckpoint)

\* what holds: the same target gets the same checkpoint, and two targets
\* share a checkpoint exactly when they differ in nothing but the suffix
CheckpointSharedUpToSuffix ==
    BothLocated =>
        (SameCheckpoint <=>
            /\ output_paths[1].parent = output_paths[2].parent
            /\ output_paths[1].stem = output_paths[2].stem)

\* every row the run dispatched is drained, has its record in the output
\* file and its index in the checkpoint file
AllRowsSettled ==
    /\ AllDrained
    /\ \A i \in Todo : \E k \in 1..Len(RunRecords) : RunRecords[k].idx = i
    /\ progress_file \notin {NoFile, Corrupt}
    /\ Todo \subseteq load_progress(progress_file)

\* C32: when every call returns or raises and the threads are scheduled
\* fairly, a run that nobody kills reaches the end of process_jobs,
\* whatever the number of rows, the pool size and the failures, and there
\* every submitted task is completed, its record appended and its index in
\* the persisted checkpoint.
C32_RunTerminates ==
    Running ~> (pc = "done" /\ (~dry_run => AllRowsSettled))

\* a run that had a task retried to exhaustion has reached its end
C32_Witness ==
    /\ Completed
    /\ AllRowsSettled
    /\ \E i \in Todo : task[i].res = "exception"
    /\ Len(rows_to_process) = SaveEvery + 1

\* the task of row i has begun execution
Started(i) == task[i].st \notin {"none", "queued"}
Unstarted == {i \in Todo : ~Started(i)}

\* C33: tasks begin execution in ascending index order of the unprocessed
\* rows: the task of j has started only if the tasks of all unprocessed
\* i < j have started, and the task a worker starts is the lowest unstarted
\* index; completions may be observed in any order.
C33_StartsInAscendingOrder ==
    [][/\ \A i, j \in Todo : (i < j /\ Started(j)) => Started(i)
       /\ \A j \in Unstarted :
              (pc' # "off" /\ task'[j].st = "running") =>
                  \A i \in Unstarted : j <= i]_vars

\* a later row is completed and drained while an earlier one is still
\* being retried
C33_Witness ==
    \E i, j \in Todo :
        /\ i < j
        /\ task[j].st = "drained" /\ j \in processed_indices
        /\ task[i].st \in {"running", "waiting"} /\ task[i].attempt > 1

\* a step in which the main thread takes the lock
Takes(lock) == lock = "free" /\ lock' = "main"
BothFree == write_lock = "free" /\ progress_lock = "free"

\* C34: write_lock and progress_lock are two locks that are never held at
\* the same time: the checkpoint is never written while write_lock is
\* held, no lock is taken while the other is held, and the main thread
\* never waits for a lock that is held, so that no deadlock is reachable.
C34_LocksNeverHeldTogether ==
    [][/\ ~(write_lock = "main" /\ progress_lock = "main")
       /\ Takes(write_lock) => progress_lock = "free" /\ progress_lock' = "free"
       /\ Takes(progress_lock) => write_lock = "free" /\ write_lock' = "free"
       /\ Persists => write_lock = "free"
       /\ pc \in {"drain", "save_open"} => BothFree]_vars

\* the main thread is inside save_progress, write_lock free, while the
\* result of another row waits to be appended
C34_Witness ==
    /\ pc = "save_write"
    /\ progress_lock = "main" /\ write_lock = "free"
    /\ InState("finished") # {}

\* the holders of the two locks
LockHolders == {write_lock, progress_lock} \ {"free"}

\* C35: the calls are not serialized: no lock is held by a worker, so
\* none is held on behalf of a task that is inside its call or its retry
\* wait, and when the drain loop has a finished result in front of it the
\* append of that record can be done whatever the other tasks are doing.
C35_CallsNotSerialized ==
    /\ LockHolders \subseteq {"main"}
    /\ \A i \in Rows :
           (pc = "drain" /\ task[i].st = "finished") => ENABLED AppendRow(i)

\* two calls are in flight at once, one of them a retry, and the record of
\* a row between them is already in the output file
C35_Witness ==
    /\ workers >= 2 /\ Cardinality(InFlight) = 2
    /\ \E i, j \in InFlight, k \in Rows :
           /\ i < k /\ k < j
           /\ task[i].attempt > 1
           /\ task[k].st = "drained" /\ k \in OutIdx(RunRecords)

\* the rows in the in-memory set that the checkpoint a resume would load
\* does not have: the one this run wrote, or before that the one it loaded
LastCheckpoint ==
    IF saved THEN Persisted ELSE LoadedIndices(resume, start_ckpt)
Unpersisted == processed_indices \ LastCheckpoint

\* C36: in every state of a run the in-memory set has at most
\* SaveEvery - 1 = 9 indices that are not in the checkpoint this run wrote,
\* or before its first save at most 9 beyond the checkpoint it loaded.
C36_AtMostNineUnpersisted ==
    pc \in DispatchDrain \cup {"final_write"} =>
        Cardinality(Unpersisted) <= SaveEvery - 1

\* what holds: at the head of the drain loop at most 9 rows are not in the
\* last complete snapshot, and at most 10 once the tenth is added and
\* until its save has started; inside save_progress the file is truncated
\* and holds no row at all
UnpersistedBoundedOutsideSave ==
    /\ pc \in {"submit", "drain", "appended"} =>
           /\ Cardinality(Unpersisted) <= SaveEvery - 1
           /\ saved => progress_file.status = "written"
    /\ pc = "save_open" => Cardinality(Unpersisted) <= SaveEvery
    /\ pc \in {"save_write", "final_write"} => progress_file = Corrupt

\* the rows whose record in the output file is that of a row-level error
ErrorRows == {output_file[k].idx :
                 k \in {j \in 1..Len(output_file) :
                            /\ output_file[j].kind = "row"
                            /\ ~output_file[j].enriched}}
ResumedFromCheckpoint == resume /\ LoadedIndices(resume, start_ckpt) # {}

\* C37: when a resumed run has completed, the error count stored in the
\* checkpoint is the number of row-level errors among all the indices of
\* processed_indices, those completed before the resume included.
C37_ErrorCountCarriedAcrossResume ==
    (Completed /\ ResumedFromCheckpoint) =>
        /\ progress_file.status = "written"
        /\ progress_file.errors =
               Cardinality(progress_file.processed_indices \cap ErrorRows)

\* what holds: the stored count is the number of errors of the last run
ErrorCountIsOfThisRun ==
    Completed =>
        /\ progress_file.status = "written"
        /\ progress_file.errors = Cardinality(FailedTasks)

\* C38: the record written for a row has, under every input column, the
\* row's input value, for successful rows and row-level errors alike, also
\* when the column has the name of a configured enrichment column.
C38_InputFieldsUnchanged ==
    (RowWritten /\ written # WriteError) =>
        \A c \in Range(input_columns) : TextOf(written, c) = original_row[c]

\* what holds: the input columns that are no enrichment columns keep
\* their values (a record of a successful and of a failed row is reached)
InputFieldsOutsideSchemaUnchanged ==
    (RowWritten /\ written # WriteError) =>
        \A c \in Range(input_columns) \ Range(ENRICHMENT_COLUMNS) :
            TextOf(written, c) = original_row[c]

\* the rendering of a list-valued field and of a field without value
ListFields == {c \in Range(ENRICHMENT_COLUMNS) :
                  c \in DOMAIN enrichment /\ enrichment[c].t = "list"}
EmptyListFields == {c \in ListFields : enrichment[c].items = <<>>}
Canonical(items) ==
    IF items = <<>> THEN "[]"
    ELSE IF items = <<"a", "b">> THEN "[\"a\", \"b\"]" ELSE "?"

TypeOK ==
    /\ pc \in {"off", "get_key", "fatal", "init_output", "write_header",
               "submit", "drain", "appended", "save_open", "save_write",
               "final_write", "done"}
    /\ limit \in cfg.limits /\ env \in cfg.envs
    /\ processed_indices \subseteq Rows
    /\ submitted \in 0..Len(rows_to_process)

====
